---- MODULE Spec2Model ----
(***************************************************************************)
(* Model of the Telegram doubt-collection bot in src/main.py: the          *)
(* ConversationHandler state machine, the per-user session (user_data),    *)
(* the blacklist cache (bot_data), the Users / Doubts / Blacklisted sheets *)
(* and the restart notifier.                                               *)
(*                                                                         *)
(* Updates are processed one at a time (the application is built without   *)
(* concurrent_updates and every sheet call is synchronous), so each        *)
(* handler invocation is one atomic action.                                *)
(***************************************************************************)
EXTENDS Integers, Sequences, FiniteSets, TLC

\* ------------------------------------------------------------------ bounds
\* Updates a user may send who starts idle or in the middle of a signup.
MaxEvents == 4
\* Updates a user may send who starts logged in.
MaxLoggedInEvents == 2
\* Rows the Doubts sheet may hold.
MaxDoubts == 1
\* Temporary image files that may exist on disk.
MaxTempFiles == 1
\* Updates the webhook may deliver to the dispatcher.
MaxArrivals == 3
\* Updates that may wait in the update queue at once.
MaxQueued == 2

\* --------------------------------------------------------------- constants
\* Python's None where a text could stand (no caption, no message text)
None == <<"None">>
\* ConversationHandler.END, also the state of a user with no conversation
END == "END"
\* a handler that returns None (or nothing) leaves the state as it is
NoReturn == "NoReturn"
NoHandler == "NoHandler"

AUTH_DECISION == "AUTH_DECISION"
LOGIN_PHONE == "LOGIN_PHONE"
LOGIN_PIN == "LOGIN_PIN"
SIGNUP_NAME == "SIGNUP_NAME"
SIGNUP_PHONE == "SIGNUP_PHONE"
SIGNUP_CLASS == "SIGNUP_CLASS"
SIGNUP_EXAMS == "SIGNUP_EXAMS"
SIGNUP_PIN == "SIGNUP_PIN"
LOGGED_IN == "LOGGED_IN"

States ==
    {AUTH_DECISION, LOGIN_PHONE, LOGIN_PIN, SIGNUP_NAME, SIGNUP_PHONE,
     SIGNUP_CLASS, SIGNUP_EXAMS, SIGNUP_PIN, LOGGED_IN}

EXAM_OPTIONS ==
    <<"CBSE", "ICSE", "School Exam", "JEE", "NEET", "Other Competitive">>

\* Age of the cached blacklist, in seconds, beyond which it is refreshed.
BLACKLIST_TTL == 300

\* Telegram user ids of the two chat participants.
Users == {101, 102}

\* str(update.message.from_user.id)
Str(id) == IF id = 101 THEN <<"1", "0", "1">> ELSE <<"1", "0", "2">>

\* ------------------------------------------------------------ text values
\* A text is a sequence of characters.
Whitespace == {" "}
\* Characters for which str.isdigit() is true: the ASCII digits and other
\* Unicode digits such as SUPERSCRIPT TWO.
AsciiDigits == {"0", "1", "2", "3", "4", "8", "9"}
IsDigitChars == AsciiDigits \cup {"sup2"}

RECURSIVE lstrip(_)
lstrip(t) ==
    IF t # <<>> /\ Head(t) \in Whitespace THEN lstrip(Tail(t)) ELSE t

RECURSIVE rstrip(_)
rstrip(t) ==
    IF t # <<>> /\ t[Len(t)] \in Whitespace
    THEN rstrip(SubSeq(t, 1, Len(t) - 1))
    ELSE t

\* str.strip()
strip(t) == rstrip(lstrip(t))

\* str.isdigit(): non-empty and every character a digit
isdigit(t) == t # <<>> /\ \A i \in 1..Len(t) : t[i] \in IsDigitChars

\* ------------------------------------------------------------------ dicts
\* A dict is a function whose domain is the set of keys present.
EmptyDict == [k \in {} |-> None]
Get(d, k) == IF k \in DOMAIN d THEN d[k] ELSE None
Put(d, k, v) == [x \in (DOMAIN d) \cup {k} |-> IF x = k THEN v ELSE d[x]]
Has(d, k) == k \in DOMAIN d
\* truthiness of d.get(k) for a text-valued key
Truthy(d, k) == Has(d, k) /\ d[k] # None /\ d[k] # <<>>

\* ----------------------------------------------------------------- inputs
NameInputs == {<<"A", "l", " ">>}
PhoneInputs == {<<"9">>, <<" ", "8">>}
ClassInputs == {<<"1", "0">>}
PinInputs ==
    {<<"1", "2", "3", "4">>, <<"1", "2", "3">>, <<"1", "2", "a", "4">>,
     <<"sup2", "sup2", "sup2", "sup2">>}
DoubtInputs == {<<"?">>}
CaptionInputs == {None, <<"c">>}
Commands == {<<"start">>, <<"cancel">>, <<"logout">>}
\* callback_data of the buttons the bot has rendered, split at the first "_"
CallbackInputs ==
    {<<"login">>, <<"signup">>, <<"exam", "JEE">>, <<"exam", "done">>}

Events ==
    [kind : {"command"}, payload : Commands]
    \cup [kind : {"text"},
          payload : NameInputs \cup PhoneInputs \cup ClassInputs
                    \cup PinInputs \cup DoubtInputs]
    \cup [kind : {"photo"}, payload : CaptionInputs]
    \cup [kind : {"callback"}, payload : CallbackInputs]

\* update.message.text of an event: a command is the text "/<command>"
MessageText(ev) ==
    IF ev.kind = "command" THEN <<"/">> \o ev.payload
    ELSE IF ev.kind = "text" THEN ev.payload
    ELSE None

\* What blacklist_sheet.col_values(1) may answer when get_blacklist asks: an
\* error, or the column as the administrators have left it by then, a header
\* cell followed by the revoked phones.
FetchFailed == <<>>
BlacklistColumns == {<< <<"P", "h", "o", "n", "e">> >>,
                     << <<"P", "h", "o", "n", "e">>, <<"9">> >>}
Fetches == {FetchFailed} \cup BlacklistColumns

\* Seconds that may have passed, when get_blacklist reads the clock, since
\* it read it the time before.
ClockSteps == {0, 300, 301}

\* What a handler invocation draws from its surroundings should it consult
\* the blacklist: the time passed and the answer of the Blacklisted sheet.
Surroundings == [dt : ClockSteps, fetch : Fetches]
Unasked == [dt |-> 0, fetch |-> FetchFailed]
\* the same surroundings for a second call within one handler invocation
SameInstant(env) == [env EXCEPT !.dt = 0]


VARIABLES
    user_data,        \* app.user_data: user id -> dict of session fields
    conv,             \* ConversationHandler state per user, END when none
    bot_data,         \* context.bot_data: dict holding the key 'blacklist'
    elapsed,          \* current_time - bot_data['blacklist_last_updated'],
                      \* as of the latest call of get_blacklist
    users_sheet,      \* rows of the Users worksheet
    doubts_sheet,     \* rows of the Doubts worksheet
    temp_files,       \* temporary image files present on disk
    budget,           \* updates each user may still send
    dispatcher,       \* the Application's update queue and the handler
                      \* invocations it has in progress
    last              \* what the most recent step did

vars ==
    <<user_data, conv, bot_data, elapsed, users_sheet, doubts_sheet,
      temp_files, budget, dispatcher, last>>

\* The dispatcher with nothing delivered: an empty queue, no handler in
\* progress, and per user the arrival number of the update handled last.
Quiet ==
    [queue |-> <<>>, running |-> {}, arrived |-> 0,
     handled |-> [u \in Users |-> 0]]
\* ---------------------------------------------------------------- routing
\* The handler tables of the ConversationHandler.  A MessageHandler filter is
\* the set of event kinds it lets through: a command is a text message that
\* filters.TEXT accepts and filters.COMMAND recognises.
TEXT_NOT_COMMAND == {"text"}
TEXT_OR_PHOTO == {"text", "command", "photo"}

CommandHandler(command, callback) ==
    [type |-> "command", command |-> command, kinds |-> {"command"},
     callback |-> callback]
MessageHandler(kinds, callback) ==
    [type |-> "message", command |-> <<>>, kinds |-> kinds,
     callback |-> callback]
CallbackQueryHandler(callback) ==
    [type |-> "callback", command |-> <<>>, kinds |-> {"callback"},
     callback |-> callback]

entry_points == <<CommandHandler(<<"start">>, "start")>>

state_handlers(state) ==
    CASE state = AUTH_DECISION ->
            <<CallbackQueryHandler("auth_decision_callback")>>
      [] state = LOGIN_PHONE ->
            <<MessageHandler(TEXT_NOT_COMMAND, "login_phone")>>
      [] state = LOGIN_PIN ->
            <<MessageHandler(TEXT_NOT_COMMAND, "login_pin")>>
      [] state = SIGNUP_NAME ->
            <<MessageHandler(TEXT_NOT_COMMAND, "signup_name")>>
      [] state = SIGNUP_PHONE ->
            <<MessageHandler(TEXT_NOT_COMMAND, "signup_phone")>>
      [] state = SIGNUP_CLASS ->
            <<MessageHandler(TEXT_NOT_COMMAND, "signup_class")>>
      [] state = SIGNUP_EXAMS ->
            <<CallbackQueryHandler("signup_exams_callback")>>
      [] state = SIGNUP_PIN ->
            <<MessageHandler(TEXT_NOT_COMMAND, "signup_pin")>>
      [] state = LOGGED_IN ->
            <<CommandHandler(<<"logout">>, "logout"),
              MessageHandler(TEXT_OR_PHOTO, "handle_doubt")>>
      [] OTHER -> <<>>

fallbacks ==
    <<CommandHandler(<<"cancel">>, "cancel"),
      CommandHandler(<<"start">>, "start")>>

\* handler.check_update(update)
Matches(h, ev) ==
    /\ ev.kind \in h.kinds
    /\ h.type = "command" => ev.payload = h.command

\* the callback of the first handler of the list that accepts the event
RECURSIVE FirstMatch(_, _)
FirstMatch(hs, ev) ==
    IF hs = <<>> THEN NoHandler
    ELSE IF Matches(Head(hs), ev) THEN Head(hs).callback
    ELSE FirstMatch(Tail(hs), ev)

\* ConversationHandler.check_update with allow_reentry left False: a user
\* without a conversation is offered the entry points only; otherwise the
\* handlers of the current state come first and the fallbacks after them.
Route(state, ev) ==
    IF state = END THEN FirstMatch(entry_points, ev)
    ELSE IF FirstMatch(state_handlers(state), ev) # NoHandler
         THEN FirstMatch(state_handlers(state), ev)
         ELSE FirstMatch(fallbacks, ev)

\* ------------------------------------------------------- handler contexts
\* What a handler invocation for user u starts from and accumulates: the
\* session dict, the bot data, the sheets, the messages sent so far, the
\* value returned and the exception that ended it, if any.
Ctx(u) ==
    [ud |-> user_data[u], bot |-> bot_data, el |-> elapsed,
     users |-> users_sheet, doubts |-> doubts_sheet, temps |-> temp_files,
     msgs |-> <<>>, ret |-> NoReturn, raised |-> "none",
     gate |-> "NotConsulted", gate_phone |-> None,
     refresh_failed |-> FALSE, bl_returned |-> FALSE, bl_value |-> {},
     admin |-> "none", keyboard |-> <<>>]

Reply(c, m) == [c EXCEPT !.msgs = Append(@, m)]
Return(c, state) == [c EXCEPT !.ret = state]
Raise(c, exc) == [c EXCEPT !.raised = exc, !.ret = NoReturn]
Clear(c) == [c EXCEPT !.ud = EmptyDict]
Store(c, k, v) == [c EXCEPT !.ud = Put(@, k, v)]

\* list[1:] of a column, as a set
SkipHeader(col) == {col[i] : i \in 2..Len(col)}

\* current_time - blacklist_last_updated, dt seconds after the latest call;
\* ages beyond the TTL are not told apart
Age(el, dt) == IF el + dt > BLACKLIST_TTL THEN BLACKLIST_TTL + 1 ELSE el + dt

\* The refresh condition of get_blacklist.
NeedsRefresh(bot, age) == ~Has(bot, "blacklist") \/ age > BLACKLIST_TTL

\* A get_blacklist that answers a failed fetch with the set it has cached,
\* the empty set when it has none.
get_blacklist_failing_open(c, env) ==
    IF NeedsRefresh(c.bot, Age(c.el, env.dt))
    THEN IF env.fetch # FetchFailed
         THEN [c EXCEPT !.bot = Put(@, "blacklist", SkipHeader(env.fetch)),
                        !.el = 0,
                        !.bl_returned = TRUE,
                        !.bl_value = SkipHeader(env.fetch)]
         ELSE [c EXCEPT !.el = Age(@, env.dt),
                        !.refresh_failed = TRUE,
                        !.bl_returned = TRUE,
                        !.bl_value = IF Has(c.bot, "blacklist")
                                     THEN c.bot["blacklist"] ELSE {}]
    ELSE [c EXCEPT !.el = Age(@, env.dt),
                   !.bl_returned = TRUE,
                   !.bl_value = c.bot["blacklist"]]

\* get_blacklist: refresh the cached set when it is absent or older than the
\* TTL (the fetch may raise), and hand back the cached set in c.bl_value.
\* c.refresh_failed tells that the sheet was read and the read failed.
get_blacklist(c, env) ==
    IF NeedsRefresh(c.bot, Age(c.el, env.dt))
    THEN IF env.fetch # FetchFailed
         THEN [c EXCEPT !.bot = Put(@, "blacklist", SkipHeader(env.fetch)),
                        !.el = 0,
                        !.bl_returned = TRUE,
                        !.bl_value = SkipHeader(env.fetch)]
         ELSE Raise([c EXCEPT !.el = Age(@, env.dt), !.refresh_failed = TRUE],
                    "GSpreadException")
    ELSE [c EXCEPT !.el = Age(@, env.dt),
                   !.bl_returned = TRUE,
                   !.bl_value = c.bot["blacklist"]]

\* A gate that tells a blacklisted user so and leaves the session in place.
is_user_blacklisted_keeping_session(c, env) ==
    IF ~Truthy(c.ud, "phone")
    THEN [c EXCEPT !.gate = "Anonymous"]
    ELSE LET b == get_blacklist([c EXCEPT !.gate_phone = c.ud["phone"]], env)
         IN  IF b.raised # "none" THEN b
             ELSE IF b.ud["phone"] \in b.bl_value
             THEN [Reply(b, "access_ended") EXCEPT !.gate = "Blacklisted"]
             ELSE [b EXCEPT !.gate = "Authenticated"]

\* A gate that lets every session with a phone through unexamined.
is_user_blacklisted_without_lookup(c, env) ==
    IF ~Truthy(c.ud, "phone")
    THEN [c EXCEPT !.gate = "Anonymous"]
    ELSE [c EXCEPT !.gate = "Authenticated", !.gate_phone = c.ud["phone"]]

\* is_user_blacklisted: the authorization gate.  c.gate tells the outcome:
\* Anonymous and Blacklisted return True, Authenticated returns False.
is_user_blacklisted(c, env) ==
    IF ~Truthy(c.ud, "phone")
    THEN [c EXCEPT !.gate = "Anonymous"]
    ELSE LET b == get_blacklist([c EXCEPT !.gate_phone = c.ud["phone"]], env)
         IN  IF b.raised # "none" THEN b
             ELSE IF b.ud["phone"] \in b.bl_value
             THEN [Clear(Reply(b, "access_ended")) EXCEPT !.gate = "Blacklisted"]
             ELSE [b EXCEPT !.gate = "Authenticated"]

GateSaysBlacklisted(c) == c.gate \in {"Anonymous", "Blacklisted"}

\* An entry point that shows the menu to everybody, logged in or not.
start_without_shortcut(c, env, is_callback) ==
    Return(Reply(c, IF is_callback THEN "menu_edited" ELSE "menu"),
           AUTH_DECISION)

\* start: the entry point, also called at the end of other handlers.
start(c, env, is_callback) ==
    LET g == IF Truthy(c.ud, "phone")
             THEN is_user_blacklisted(c, env)
             ELSE c
        menu(x) ==
            Return(Reply(x, IF is_callback THEN "menu_edited" ELSE "menu"),
                   AUTH_DECISION)
    IN  IF Truthy(c.ud, "phone")
        THEN IF g.raised # "none" THEN g
             ELSE IF GateSaysBlacklisted(g) THEN menu(g)
             ELSE Return(Reply(g, "welcome_back"), LOGGED_IN)
        ELSE menu(c)

auth_decision_callback(c, ev) ==
    IF ev.payload = <<"login">>
    THEN Return(Reply(c, "ask_login_phone"), LOGIN_PHONE)
    ELSE IF ev.payload = <<"signup">>
    THEN Return(Reply(c, "ask_name"), SIGNUP_NAME)
    ELSE c

signup_name(c, ev) ==
    Return(Reply(Store(c, "signup_name", strip(MessageText(ev))),
                 "ask_phone"),
           SIGNUP_PHONE)

\* users_sheet.find(phone, in_column=1): the index of the first row whose
\* first cell is the phone, 0 when there is none
Find(users, phone) ==
    IF \E i \in 1..Len(users) : users[i][1] = phone
    THEN CHOOSE i \in 1..Len(users) :
            /\ users[i][1] = phone
            /\ \A j \in 1..(i - 1) : users[j][1] # phone
    ELSE 0

\* signup_phone: only CellNotFound is caught, any other error of the sheet
\* leaves the handler as an exception.
signup_phone(c, ev, store_ok) ==
    LET phone == strip(MessageText(ev))
    IN  IF ~store_ok THEN Raise(c, "GSpreadException")
        ELSE IF Find(c.users, phone) # 0
        THEN Return(Reply(c, "already_registered"), END)
        ELSE Return(Reply(Store(c, "signup_phone", phone), "ask_class"),
                    SIGNUP_CLASS)

\* the inline keyboard of the exam question: one button per option, with a
\* checkmark on the selected ones, and the Done button
ExamKeyboard(selected) ==
    [i \in 1..Len(EXAM_OPTIONS) |->
        [exam |-> EXAM_OPTIONS[i],
         checked |-> EXAM_OPTIONS[i] \in selected,
         data |-> <<"exam", EXAM_OPTIONS[i]>>]]
    \o <<[exam |-> "Done", checked |-> FALSE, data |-> <<"exam", "done">>]>>

signup_class(c, ev) ==
    LET c1 == Store(Store(c, "signup_class", strip(MessageText(ev))),
                    "selected_exams", {})
    IN  Return([Reply(c1, "ask_exams") EXCEPT !.keyboard = ExamKeyboard({})],
               SIGNUP_EXAMS)

\* A toggle that only ever adds the pressed option.
Toggle_adding_only(selected, action) == selected \cup {action}

\* set.remove / set.add of the pressed option
Toggle(selected, action) ==
    IF action \in selected THEN selected \ {action} ELSE selected \cup {action}

\* signup_exams_callback: query.data.split('_', 1)[1] raises IndexError for
\* a callback_data without "_".
signup_exams_callback(c, ev) ==
    IF Len(ev.payload) < 2 THEN Raise(c, "IndexError")
    ELSE LET action == ev.payload[2]
             selected ==
                 Toggle(IF Has(c.ud, "selected_exams")
                        THEN c.ud["selected_exams"] ELSE {},
                        action)
         IN  IF action = "done"
             THEN Return(Reply(c, "ask_pin"), SIGNUP_PIN)
             ELSE Return([Reply(Store(c, "selected_exams", selected),
                                "keyboard_edited")
                            EXCEPT !.keyboard = ExamKeyboard(selected)],
                         SIGNUP_EXAMS)
\* The exam options in the order sorted() puts their names.
SortedOptions ==
    <<"CBSE", "ICSE", "JEE", "NEET", "Other Competitive", "School Exam">>

\* ", ".join(sorted(list(selected))), kept as the sequence of joined names
exams_str(selected) ==
    LET keep(e) == e \in selected IN SelectSeq(SortedOptions, keep)

\* pin.isdigit() and len(pin) == 4
ValidPin(pin) == isdigit(pin) /\ Len(pin) = 4

Timestamp == <<"ts">>

\* send_whatsapp_notification: skipped without credentials, and a failed
\* request is logged and swallowed, so it never raises.
send_whatsapp_notification(c, outcome) == [c EXCEPT !.admin = outcome]

AdminOutcomes == {"sent", "failed", "skipped"}

SignupKeys == {"selected_exams", "signup_name", "signup_phone", "signup_class"}

\* A signup that hands over to start with the signup fields still in place.
signup_pin_saved_without_clear(c, admin_outcome, env) ==
    start(Reply(send_whatsapp_notification(c, admin_outcome),
                "signup_successful_please_log_in"),
          env, FALSE)

\* what signup_pin does once users_sheet.append_row has returned
signup_pin_saved(c, admin_outcome, env) ==
    start(Reply(Clear(send_whatsapp_notification(c, admin_outcome)),
                "signup_successful_please_log_in"),
          env, FALSE)

\* signup_pin: validate the PIN, append the Account row, notify the admin,
\* clear the session and hand over to start.
signup_pin(c, u, ev, append_ok, admin_outcome, env) ==
    LET pin == strip(MessageText(ev))
        new_row ==
            <<c.ud["signup_phone"], Str(u), c.ud["signup_name"],
              c.ud["signup_class"], exams_str(c.ud["selected_exams"]), pin,
              Timestamp>>
    IN  IF ~ValidPin(pin)
        THEN Return(Reply(c, "invalid_pin"), SIGNUP_PIN)
        ELSE IF ~(SignupKeys \subseteq DOMAIN c.ud)
        THEN Raise(c, "KeyError")
        ELSE IF append_ok
        THEN signup_pin_saved([c EXCEPT !.users = Append(@, new_row)],
                              admin_outcome, env)
        ELSE start(Reply(c, "signup_problem"), env, FALSE)

\* login_phone: blacklist check on the typed phone, then the account lookup.
login_phone(c, ev, env, store_ok) ==
    LET phone == strip(MessageText(ev))
        b == get_blacklist(c, env)
        row == Find(b.users, phone)
    IN  IF b.raised # "none" THEN b
        ELSE IF phone \in b.bl_value
        THEN Return(Reply(b, "access_ended"), END)
        ELSE IF ~store_ok
        THEN Return(Reply(b, "database_problem"), END)
        ELSE IF row # 0
        THEN Return(Reply(Store(b, "login_data", b.users[row]),
                          "ask_login_pin"),
                    LOGIN_PIN)
        ELSE start(Reply(b, "not_registered"), SameInstant(env), FALSE)

\* what login_pin does when PIN and Telegram id both match
login_pin_success(c, phone_number) ==
    Return(Reply(Store(Clear(c), "phone", phone_number), "login_successful"),
           LOGGED_IN)

\* A login that asks for the PIN only, whoever types it.
login_pin_without_owner_check(c, u, ev) ==
    IF ~Has(c.ud, "login_data") THEN Raise(c, "KeyError")
    ELSE LET pin == strip(MessageText(ev))
             user_data_row == c.ud["login_data"]
         IN  IF pin = user_data_row[6]
             THEN login_pin_success(c, user_data_row[1])
             ELSE Return(Reply(c, "incorrect_pin"), LOGIN_PIN)

\* login_pin: row[5] is the stored PIN, row[1] the owner's Telegram id and
\* row[0] the phone (0-based in the source, 1-based here).
login_pin(c, u, ev) ==
    IF ~Has(c.ud, "login_data") THEN Raise(c, "KeyError")
    ELSE LET pin == strip(MessageText(ev))
             user_data_row == c.ud["login_data"]
         IN  IF pin = user_data_row[6]
             THEN IF user_data_row[2] = Str(u)
                  THEN login_pin_success(c, user_data_row[1])
                  ELSE Return(Reply(c, "access_denied"), END)
             ELSE Return(Reply(c, "incorrect_pin"), LOGIN_PIN)

PhotoOutcomes == {"ok", "get_file_failed", "download_failed", "upload_failed"}

\* The call of handle_doubt after the gate that fails, if any: the handler
\* makes the calls one after the other and the first failure ends it.
DoubtFailures ==
    {"none", "users_find", "get_file", "download", "upload",
     "doubts_append"}
PhotoOutcome(failure) ==
    CASE failure = "get_file" -> "get_file_failed"
      [] failure = "download" -> "download_failed"
      [] failure = "upload" -> "upload_failed"
      [] OTHER -> "ok"

\* A Doubts row with the text and the link in each other's column.
DoubtRow_columns_swapped(name, phone, u, text_doubt, drive_link) ==
    <<Timestamp, name, phone, Str(u), drive_link, text_doubt, <<"Pending">>,
      <<"https://wa.me/91">> \o phone>>

\* the row handle_doubt appends to the Doubts sheet
DoubtRow(name, phone, u, text_doubt, drive_link) ==
    <<Timestamp, name, phone, Str(u), text_doubt, drive_link, <<"Pending">>,
      <<"https://wa.me/91">> \o phone>>

\* the photo branch of handle_doubt: bot.get_file, then a temporary file
\* that is unlinked only after download and upload both went through
doubt_photo(c, photo_outcome) ==
    IF photo_outcome = "get_file_failed" THEN Raise(c, "TelegramError")
    ELSE IF photo_outcome = "download_failed"
    THEN Raise([c EXCEPT !.temps = @ + 1], "TelegramError")
    ELSE IF photo_outcome = "upload_failed"
    THEN Raise([c EXCEPT !.temps = @ + 1], "ApiRequestError")
    ELSE Reply(c, "image_doubt_recorded")

\* doubts_sheet.append_row, the last statement of handle_doubt
doubt_append(c, row, append_ok) ==
    IF c.raised # "none" THEN c
    ELSE IF append_ok THEN [c EXCEPT !.doubts = Append(@, row)]
    ELSE Raise(c, "GSpreadException")

\* handle_doubt: gate, account lookup (only CellNotFound is caught), the
\* acknowledgement and then the append.
handle_doubt(c, u, ev, env, store_ok, photo_outcome, append_ok) ==
    LET g == is_user_blacklisted(c, env)
        phone == g.ud["phone"]
        row == Find(g.users, phone)
        name == g.users[row][3]
        text_doubt ==
            IF ev.kind = "photo"
            THEN IF ev.payload # None /\ ev.payload # <<>>
                 THEN ev.payload ELSE <<"-">>
            ELSE MessageText(ev)
        drive_link ==
            IF ev.kind = "photo" THEN <<"https://drive.google.com/uc?id=">>
            ELSE <<"-">>
        acked ==
            IF ev.kind = "photo" THEN doubt_photo(g, photo_outcome)
            ELSE Reply(g, "text_doubt_recorded")
    IN  IF g.raised # "none" THEN g
        ELSE IF GateSaysBlacklisted(g) THEN g
        ELSE IF ~Truthy(g.ud, "phone") THEN Reply(g, "log_in_again")
        ELSE IF ~store_ok THEN Raise(g, "GSpreadException")
        ELSE IF row = 0 THEN Reply(g, "account_error")
        ELSE doubt_append(acked,
                          DoubtRow(name, phone, u, text_doubt, drive_link),
                          append_ok)

logout(c, env) == start(Reply(Clear(c), "logged_out"), env, FALSE)

cancel(c) == Return(Reply(Clear(c), "cancelled"), END)

\* list(app.user_data.items()): the persisted sessions in the order of
\* their keys
UserOrder == <<101, 102>>

\* A notifier whose first failed send ends the sweep.
RECURSIVE notify_users_until_failure(_, _, _)
notify_users_until_failure(ids, data, failing) ==
    IF ids = <<>> THEN <<>>
    ELSE IF Truthy(data[Head(ids)], "phone")
         THEN IF Head(ids) \in failing
              THEN <<[chat_id |-> Head(ids), delivered |-> FALSE]>>
              ELSE <<[chat_id |-> Head(ids), delivered |-> TRUE]>>
                   \o notify_users_until_failure(Tail(ids), data, failing)
         ELSE notify_users_until_failure(Tail(ids), data, failing)

\* notify_users_on_restart: every persisted session that holds a phone is
\* sent one message; a send that fails (the users in `failing`) is logged and
\* the loop goes on.  The result is the sequence of sends attempted.
RECURSIVE notify_users_on_restart(_, _, _)
notify_users_on_restart(ids, data, failing) ==
    IF ids = <<>> THEN <<>>
    ELSE IF Truthy(data[Head(ids)], "phone")
         THEN <<[chat_id |-> Head(ids),
                 delivered |-> Head(ids) \notin failing]>>
              \o notify_users_on_restart(Tail(ids), data, failing)
         ELSE notify_users_on_restart(Tail(ids), data, failing)

\* What a new process finds: PicklePersistence brings back user_data, and
\* the ConversationHandler, built without persistent=True, starts with no
\* conversation at all.
RestoredUserData(data) == data
\* A ConversationHandler that finds every conversation where it was.
PersistedConversations(states) == states
RestoredConversations(states) == [u \in DOMAIN states |-> END]

\* ---------------------------------------------------------------- actions
NoEvent == [kind |-> "none", payload |-> <<>>]

\* The record of a step: which update was handled by which handler, from
\* which conversation states and sessions, and what the handler did.
Handled(u, ev, handler, c) ==
    [kind |-> "update", user |-> u, event |-> ev, handler |-> handler,
     pre_conv |-> conv, pre_data |-> user_data,
     pre_users |-> Len(users_sheet), pre_doubts |-> Len(doubts_sheet),
     pre_temps |-> temp_files,
     msgs |-> c.msgs, ret |-> c.ret, raised |-> c.raised, gate |-> c.gate,
     gate_phone |-> c.gate_phone, refresh_failed |-> c.refresh_failed,
     bl_returned |-> c.bl_returned, bl_value |-> c.bl_value,
     admin |-> c.admin, keyboard |-> c.keyboard, sends |-> <<>>]

\* The record of a step that handled no update.
Unhandled(kind, handler, sends) ==
    [kind |-> kind, user |-> 0, event |-> NoEvent, handler |-> handler,
     pre_conv |-> conv, pre_data |-> user_data,
     pre_users |-> Len(users_sheet), pre_doubts |-> Len(doubts_sheet),
     pre_temps |-> temp_files,
     msgs |-> <<>>, ret |-> NoReturn, raised |-> "none",
     gate |-> "NotConsulted", gate_phone |-> None, refresh_failed |-> FALSE,
     bl_returned |-> FALSE, bl_value |-> {},
     admin |-> "none", keyboard |-> <<>>, sends |-> sends]

\* The state a conversation is left in: an exception or a None return keeps
\* the state, ConversationHandler.END removes the conversation.
NextConv(state, c) ==
    IF c.raised # "none" \/ c.ret = NoReturn THEN state ELSE c.ret

\* The surroundings that make a difference to get_blacklist in the current
\* state: the clock counts once there is a cached set, and the sheet is
\* fetched only for a refresh.
Relevant ==
    {env \in Surroundings :
        /\ Has(bot_data, "blacklist") \/ env.dt = 0
        /\ NeedsRefresh(bot_data, Age(elapsed, env.dt))
            \/ env.fetch = FetchFailed}

\* The surroundings to go through for a handler that consults the blacklist
\* only for a session that holds a phone.
Asked(u) == IF Truthy(user_data[u], "phone") THEN Relevant ELSE {Unasked}

\* The failures to go through for an update handle_doubt is given.
DoubtFailuresFor(ev) ==
    IF ev.kind = "photo" THEN DoubtFailures
    ELSE {"none", "users_find", "doubts_append"}

\* The update ev of user u is accepted by `handler` in the user's state.
Routed(u, ev, handler) == Route(conv[u], ev) = handler

\* The outcome c of the handler that ran for update ev of user u.
Effects(u, ev, handler, c) ==
    /\ user_data' = [user_data EXCEPT ![u] = c.ud]
    /\ conv' = [conv EXCEPT ![u] = NextConv(@, c)]
    /\ bot_data' = c.bot
    /\ elapsed' = c.el
    /\ users_sheet' = c.users
    /\ doubts_sheet' = c.doubts
    /\ temp_files' = c.temps
    /\ last' = Handled(u, ev, handler, c)

\* An update of user u handled as soon as it is received.
Commit(u, ev, handler, c) ==
    /\ budget[u] > 0
    /\ budget' = [budget EXCEPT ![u] = @ - 1]
    /\ Len(c.doubts) <= MaxDoubts
    /\ c.temps <= MaxTempFiles
    /\ Effects(u, ev, handler, c)
    /\ UNCHANGED dispatcher

Command(name) == [kind |-> "command", payload |-> name]
Text(t) == [kind |-> "text", payload |-> t]
Photo(caption) == [kind |-> "photo", payload |-> caption]
Callback(data) == [kind |-> "callback", payload |-> data]

Start(u) ==
    /\ Routed(u, Command(<<"start">>), "start")
    /\ \E env \in Asked(u) :
        \E c \in {start(Ctx(u), env, FALSE)} :
            Commit(u, Command(<<"start">>), "start", c)

AuthDecisionCallback(u) ==
    \E data \in CallbackInputs :
        /\ Routed(u, Callback(data), "auth_decision_callback")
        /\ \E c \in {auth_decision_callback(Ctx(u), Callback(data))} :
            Commit(u, Callback(data), "auth_decision_callback", c)

SignupName(u) ==
    \E t \in NameInputs :
        /\ Routed(u, Text(t), "signup_name")
        /\ \E c \in {signup_name(Ctx(u), Text(t))} :
            Commit(u, Text(t), "signup_name", c)

SignupPhone(u) ==
    \E t \in PhoneInputs :
        /\ Routed(u, Text(t), "signup_phone")
        /\ \E store_ok \in BOOLEAN :
            \E c \in {signup_phone(Ctx(u), Text(t), store_ok)} :
                Commit(u, Text(t), "signup_phone", c)

SignupClass(u) ==
    \E t \in ClassInputs :
        /\ Routed(u, Text(t), "signup_class")
        /\ \E c \in {signup_class(Ctx(u), Text(t))} :
            Commit(u, Text(t), "signup_class", c)

SignupExamsCallback(u) ==
    \E data \in CallbackInputs :
        /\ Routed(u, Callback(data), "signup_exams_callback")
        /\ \E c \in {signup_exams_callback(Ctx(u), Callback(data))} :
            Commit(u, Callback(data), "signup_exams_callback", c)

SignupPin(u) ==
    \E t \in PinInputs :
        /\ Routed(u, Text(t), "signup_pin")
        /\ \E outcome \in {"append_failed"} \cup AdminOutcomes,
              env \in Asked(u) :
            \E c \in {signup_pin(Ctx(u), u, Text(t),
                                 outcome # "append_failed", outcome, env)} :
                Commit(u, Text(t), "signup_pin", c)

LoginPhone(u) ==
    \E t \in PhoneInputs :
        /\ Routed(u, Text(t), "login_phone")
        /\ \E env \in Relevant, store_ok \in BOOLEAN :
            \E c \in {login_phone(Ctx(u), Text(t), env, store_ok)} :
                Commit(u, Text(t), "login_phone", c)

LoginPin(u) ==
    \E t \in PinInputs :
        /\ Routed(u, Text(t), "login_pin")
        /\ \E c \in {login_pin(Ctx(u), u, Text(t))} :
            Commit(u, Text(t), "login_pin", c)

\* the updates the LOGGED_IN message handler may be offered
DoubtEvents ==
    {Text(t) : t \in DoubtInputs} \cup {Command(n) : n \in Commands}
    \cup {Photo(p) : p \in CaptionInputs}

HandleDoubt(u) ==
    \E ev \in DoubtEvents :
        /\ Routed(u, ev, "handle_doubt")
        /\ \E failure \in DoubtFailuresFor(ev), env \in Asked(u) :
            \E c \in {handle_doubt(Ctx(u), u, ev,
                                   env,
                                   failure # "users_find",
                                   PhotoOutcome(failure),
                                   failure # "doubts_append")} :
                Commit(u, ev, "handle_doubt", c)

Logout(u) ==
    /\ Routed(u, Command(<<"logout">>), "logout")
    /\ \E env \in Asked(u) :
        \E c \in {logout(Ctx(u), env)} :
            Commit(u, Command(<<"logout">>), "logout", c)

Cancel(u) ==
    /\ Routed(u, Command(<<"cancel">>), "cancel")
    /\ \E c \in {cancel(Ctx(u))} :
        Commit(u, Command(<<"cancel">>), "cancel", c)

\* The process stops and starts again: the persisted data is loaded and
\* post_init runs notify_users_on_restart, where any send may fail.
Restart ==
    \E failing \in SUBSET {u \in Users : Truthy(user_data[u], "phone")} :
        /\ user_data' = RestoredUserData(user_data)
        /\ conv' = RestoredConversations(conv)
        /\ last' = Unhandled("restart", "notify_users_on_restart",
                             notify_users_on_restart(
                                 UserOrder, RestoredUserData(user_data),
                                 failing))
        /\ UNCHANGED <<bot_data, elapsed, users_sheet, doubts_sheet,
                       temp_files, budget, dispatcher>>

\* ------------------------------------------------------------ first states
\* The bot has been running.  Every first state is one the program reaches
\* from an empty deployment by the updates named with it.
Name0 == <<"A", "l">>
Class0 == <<"1", "0">>
Pin0 == <<"1", "2", "3", "4">>

\* the row user u's completed signup with phone p appends
AccountRow(p, u) == <<p, Str(u), Name0, Class0, <<"JEE">>, Pin0, Timestamp>>

\* /start, "signup" and a name have been handled
MidSignup ==
    [conv |-> SIGNUP_PHONE, ud |-> Put(EmptyDict, "signup_name", Name0)]
\* nothing has been received from the user, or the user has cancelled
Idle == [conv |-> END, ud |-> EmptyDict]
\* the user has signed up with phone p and has logged in
LoggedInWith(p) == [conv |-> LOGGED_IN, ud |-> Put(EmptyDict, "phone", p)]

\* The first states: both users in the middle of a signup and no account
\* yet; user 101 logged in to the account of phone 9; that account and a
\* user 102 who is signing up; both users logged in, each to their account.
InitialSessions ==
    {[accounts |-> <<>>, s101 |-> MidSignup, s102 |-> MidSignup],
     [accounts |-> <<AccountRow(<<"9">>, 101)>>,
      s101 |-> LoggedInWith(<<"9">>), s102 |-> Idle],
     [accounts |-> <<AccountRow(<<"9">>, 101)>>,
      s101 |-> Idle, s102 |-> MidSignup],
     [accounts |-> <<AccountRow(<<"9">>, 101), AccountRow(<<"8">>, 102)>>,
      s101 |-> LoggedInWith(<<"9">>), s102 |-> LoggedInWith(<<"8">>)]}

Init ==
    \E ss \in InitialSessions :
        /\ user_data = [u \in Users |-> IF u = 101 THEN ss.s101.ud
                                        ELSE ss.s102.ud]
        /\ conv = [u \in Users |-> IF u = 101 THEN ss.s101.conv
                                   ELSE ss.s102.conv]
        /\ users_sheet = ss.accounts
        \* a login has gone through login_phone, which fills the cache
        /\ bot_data =
            IF ss.s101.conv = LOGGED_IN
            THEN Put(EmptyDict, "blacklist", {})
            ELSE EmptyDict
        /\ elapsed = 0
        /\ doubts_sheet = <<>>
        /\ temp_files = 0
        /\ budget = [u \in Users |->
                        IF conv[u] = LOGGED_IN THEN MaxLoggedInEvents
                        ELSE MaxEvents]
        /\ dispatcher = Quiet
        /\ last = Unhandled("init", NoHandler, <<>>)

Next ==
    \/ \E u \in Users :
        \/ Start(u)
        \/ AuthDecisionCallback(u)
        \/ SignupName(u)
        \/ SignupPhone(u)
        \/ SignupClass(u)
        \/ SignupExamsCallback(u)
        \/ SignupPin(u)
        \/ LoginPhone(u)
        \/ LoginPin(u)
        \/ HandleDoubt(u)
        \/ Logout(u)
        \/ Cancel(u)
    \/ Restart

Spec == Init /\ [][Next]_vars

\* --------------------------------------------- the exam question by itself
\* The session of a user whom signup_class has asked the exam question and
\* who has since pressed buttons so that `selected` is the selection.
AtExamQuestion(selected) ==
    [conv |-> SIGNUP_EXAMS,
     ud |-> Put(Put(Put(Put(EmptyDict, "signup_name", Name0),
                        "signup_phone", <<"9">>),
                    "signup_class", Class0),
                "selected_exams", selected)]

\* User 101 is at the exam question with any selection of the options.
InitExams ==
    \E selected \in SUBSET {EXAM_OPTIONS[i] : i \in 1..Len(EXAM_OPTIONS)} :
        /\ user_data = [u \in Users |-> IF u = 101
                                        THEN AtExamQuestion(selected).ud
                                        ELSE EmptyDict]
        /\ conv = [u \in Users |-> IF u = 101 THEN SIGNUP_EXAMS ELSE END]
        /\ users_sheet = <<>>
        /\ bot_data = EmptyDict
        /\ elapsed = 0
        /\ doubts_sheet = <<>>
        /\ temp_files = 0
        /\ budget = [u \in Users |-> MaxEvents]
        /\ dispatcher = Quiet
        /\ last = Unhandled("init", NoHandler, <<>>)

\* The user presses one of the buttons of the exam keyboard.
PressExamButton(u) ==
    \E i \in 1..Len(ExamKeyboard({})) :
        /\ Routed(u, Callback(ExamKeyboard({})[i].data),
                  "signup_exams_callback")
        /\ \E c \in {signup_exams_callback(
                         Ctx(u), Callback(ExamKeyboard({})[i].data))} :
            Commit(u, Callback(ExamKeyboard({})[i].data),
                   "signup_exams_callback", c)

NextExams == \E u \in Users : PressExamButton(u)

SpecExams == InitExams /\ [][NextExams]_vars

\* ------------------------------------------------- the update dispatcher
\* The application is built without concurrent_updates(...), and every
\* handler is registered with the default block=True: the dispatcher awaits
\* the processing of one update before it takes the next from its queue.
concurrent_updates_enabled == TRUE
concurrent_updates == FALSE

\* The updates the webhook delivers.
ArrivalEvents ==
    {Command(n) : n \in Commands}
    \cup {Text(<<"?">>), Text(<<"9">>), Photo(<<"c">>)}

\* Surroundings in which every collaborator answers and nobody is revoked.
Calm == [dt |-> 0, fetch |-> << <<"P", "h", "o", "n", "e">> >>]

\* The callback registered under the name `handler`, run on update ev.
RunHandler(handler, c, u, ev) ==
    CASE handler = "start" -> start(c, Calm, FALSE)
      [] handler = "auth_decision_callback" -> auth_decision_callback(c, ev)
      [] handler = "signup_name" -> signup_name(c, ev)
      [] handler = "signup_phone" -> signup_phone(c, ev, TRUE)
      [] handler = "signup_class" -> signup_class(c, ev)
      [] handler = "signup_exams_callback" -> signup_exams_callback(c, ev)
      [] handler = "signup_pin" -> signup_pin(c, u, ev, TRUE, "sent", Calm)
      [] handler = "login_phone" -> login_phone(c, ev, Calm, TRUE)
      [] handler = "login_pin" -> login_pin(c, u, ev)
      [] handler = "handle_doubt" ->
            handle_doubt(c, u, ev, Calm, TRUE, "ok", TRUE)
      [] handler = "logout" -> logout(c, Calm)
      [] handler = "cancel" -> cancel(c)

\* run_webhook: an update received from Telegram is put on the update queue,
\* numbered here by its arrival.
Arrive ==
    \E u \in Users, ev \in ArrivalEvents :
        /\ dispatcher.arrived < MaxArrivals
        /\ Len(dispatcher.queue) < MaxQueued
        /\ dispatcher' =
            [dispatcher EXCEPT
                !.arrived = @ + 1,
                !.queue = Append(@, [user |-> u, event |-> ev,
                                      seq |-> dispatcher.arrived + 1])]
        /\ UNCHANGED <<user_data, conv, bot_data, elapsed, users_sheet,
                       doubts_sheet, temp_files, budget, last>>

\* The dispatcher takes the update at the head of the queue and starts the
\* handler that accepts it, which reads the user's session; an update that
\* no handler accepts is done with at once.
Begin ==
    /\ dispatcher.queue # <<>>
    /\ concurrent_updates \/ dispatcher.running = {}
    /\ LET upd == Head(dispatcher.queue)
           handler == Route(conv[upd.user], upd.event)
       IN  dispatcher' =
            [dispatcher EXCEPT
                !.queue = Tail(@),
                !.running =
                    IF handler = NoHandler THEN @
                    ELSE @ \cup {[user |-> upd.user, event |-> upd.event,
                                  seq |-> upd.seq, handler |-> handler,
                                  seen |-> user_data[upd.user]]},
                !.handled =
                    IF handler = NoHandler
                    THEN [@ EXCEPT ![upd.user] = upd.seq]
                    ELSE @]
    /\ UNCHANGED <<user_data, conv, bot_data, elapsed, users_sheet,
                   doubts_sheet, temp_files, budget, last>>

\* A handler in progress completes: it has worked on the session it read
\* when it started, and writes the session back.
Finish ==
    \E r \in dispatcher.running :
        \E c \in {RunHandler(r.handler, [Ctx(r.user) EXCEPT !.ud = r.seen],
                             r.user, r.event)} :
            /\ Effects(r.user, r.event, r.handler, c)
            /\ dispatcher' =
                [dispatcher EXCEPT !.running = @ \ {r},
                                   !.handled[r.user] = r.seq]
            /\ UNCHANGED budget

\* User 101 is logged in to the account of phone 9, user 102 is signing up.
InitDispatch ==
    /\ user_data = [u \in Users |-> IF u = 101 THEN LoggedInWith(<<"9">>).ud
                                    ELSE MidSignup.ud]
    /\ conv = [u \in Users |-> IF u = 101 THEN LOGGED_IN ELSE SIGNUP_PHONE]
    /\ users_sheet = <<AccountRow(<<"9">>, 101)>>
    /\ bot_data = Put(EmptyDict, "blacklist", {})
    /\ elapsed = 0
    /\ doubts_sheet = <<>>
    /\ temp_files = 0
    /\ budget = [u \in Users |-> MaxEvents]
    /\ dispatcher = Quiet
    /\ last = Unhandled("init", NoHandler, <<>>)

NextDispatch == Arrive \/ Begin \/ Finish

SpecDispatch == InitDispatch /\ [][NextDispatch]_vars

\* ------------------------------------------------------------- properties
\* The properties are stated on the record of the latest step: the user who
\* sent the update, that user's session and conversation state before the
\* step (Before...) and the variables as the step left them.
Sender == last.user
SessionBefore == last.pre_data[last.user]
StateBefore == last.pre_conv[last.user]
UpdateHandledBy(handler) == last.kind = "update" /\ last.handler = handler
RowsAppended(sheet, before) == Len(sheet) - before

\* a PIN of exactly four decimal digits
DecimalPin(pin) == Len(pin) = 4 /\ \A i \in 1..4 : pin[i] \in AsciiDigits

\* signup_pin has just handled a four-digit PIN in SIGNUP_PIN and the append
\* of the Account row has returned.
SignupCompleted ==
    /\ UpdateHandledBy("signup_pin")
    /\ StateBefore = SIGNUP_PIN
    /\ DecimalPin(strip(MessageText(last.event)))
    /\ last.admin # "none"

\* the Account row of the signup just completed
AccountRowOfSignup ==
    <<SessionBefore["signup_phone"], Str(Sender), SessionBefore["signup_name"],
      SessionBefore["signup_class"],
      exams_str(SessionBefore["selected_exams"]),
      strip(MessageText(last.event)), Timestamp>>

OneAccountRowAppended ==
    /\ RowsAppended(users_sheet, last.pre_users) = 1
    /\ users_sheet[Len(users_sheet)] = AccountRowOfSignup

\* C1 as the specification words it: a completed signup appends one Account
\* row, clears the transient signup fields, sets the session's phone to the
\* phone signed up and leaves the conversation in LOGGED_IN.
C1SignupLogsIn ==
    SignupCompleted =>
        /\ OneAccountRowAppended
        /\ SignupKeys \cap DOMAIN user_data[Sender] = {}
        /\ Truthy(user_data[Sender], "phone")
        /\ user_data[Sender]["phone"] = SessionBefore["signup_phone"]
        /\ conv[Sender] = LOGGED_IN

\* C1, amended: a completed signup appends one Account row (phone, caller's
\* identity, name, class, exam tags, PIN, timestamp) and clears every field
\* of the session; the phone is left unset, the user is told to log in and
\* shown the menu, and the conversation is left in AUTH_DECISION, where a
\* text is not taken as a doubt.
C1SignupReturnsToMenu ==
    SignupCompleted =>
        /\ OneAccountRowAppended
        /\ user_data[Sender] = EmptyDict
        /\ conv[Sender] = AUTH_DECISION
        /\ last.msgs = <<"signup_successful_please_log_in", "menu">>
        /\ \A t \in DoubtInputs : Route(conv[Sender], Text(t)) = NoHandler

C1Witness ==
    /\ SignupCompleted
    /\ RowsAppended(users_sheet, last.pre_users) = 1
    /\ conv[Sender] = AUTH_DECISION

\* C2 as the specification words it: the Users sheet never holds two Account
\* rows with the same phone, however the signups of different users
\* interleave.
C2OneAccountPerPhone ==
    \A i, j \in 1..Len(users_sheet) :
        users_sheet[i][1] = users_sheet[j][1] => i = j

\* login_pin has just handled a text for a session that holds the Account
\* row looked up by login_phone.
LoginPinHandled ==
    /\ UpdateHandledBy("login_pin")
    /\ StateBefore = LOGIN_PIN
    /\ Has(SessionBefore, "login_data")

\* the Account row the Users sheet holds for the phone being logged in to
AccountOfLogin ==
    users_sheet[Find(users_sheet, SessionBefore["login_data"][1])]

PinMatches == strip(MessageText(last.event)) = AccountOfLogin[6]
CallerOwnsAccount == AccountOfLogin[2] = Str(Sender)

\* C3: when the PIN typed in LOGIN_PIN matches the PIN of the Account but
\* the Account's recorded identity is not the caller's, access is denied,
\* the conversation ends and the session's phone stays unset; login sets the
\* phone (to the Account's phone, entering LOGGED_IN) only when both the PIN
\* and the identity match.
C3LoginOwnership ==
    LoginPinHandled =>
        /\ (PinMatches /\ ~CallerOwnsAccount) =>
                /\ last.msgs = <<"access_denied">>
                /\ conv[Sender] = END
                /\ ~Has(user_data[Sender], "phone")
        /\ Has(user_data[Sender], "phone") =>
                /\ PinMatches
                /\ CallerOwnsAccount
                /\ user_data[Sender]["phone"] = AccountOfLogin[1]
                /\ conv[Sender] = LOGGED_IN
        /\ (PinMatches /\ CallerOwnsAccount) =>
                Has(user_data[Sender], "phone")

C3Witness ==
    /\ LoginPinHandled
    /\ PinMatches
    /\ ~CallerOwnsAccount
    /\ conv[Sender] = END

\* The gate has just been evaluated for a session with a phone: it obtained
\* the blacklist from get_blacklist and came to an outcome.
GateEvaluated ==
    /\ last.kind = "update"
    /\ last.gate_phone # None
    /\ last.bl_returned

\* C4: whenever the gate is evaluated for a session whose phone is in the
\* blacklist that get_blacklist returns, it reports blacklisted and every
\* field of the session is cleared afterwards, whatever the conversation
\* state.
C4GateClearsBlacklisted ==
    (GateEvaluated /\ last.gate_phone \in last.bl_value) =>
        /\ last.gate = "Blacklisted"
        /\ "access_ended" \in {last.msgs[i] : i \in 1..Len(last.msgs)}
        /\ user_data[Sender] = EmptyDict

C4Witness ==
    /\ GateEvaluated
    /\ last.gate_phone \in last.bl_value
    /\ StateBefore = LOGGED_IN
    /\ SessionBefore # EmptyDict

\* C5: a Doubt row is appended only by an update handled in LOGGED_IN for a
\* session whose phone is set and is not in the blacklist get_blacklist
\* returned for that update; it is one row, its phone is the session's phone
\* and its identity the caller's.  So no row is ever appended for an
\* anonymous or a blacklisted session.
C5DoubtOnlyThroughGate ==
    RowsAppended(doubts_sheet, last.pre_doubts) # 0 =>
        /\ UpdateHandledBy("handle_doubt")
        /\ StateBefore = LOGGED_IN
        /\ Truthy(SessionBefore, "phone")
        /\ last.bl_returned
        /\ SessionBefore["phone"] \notin last.bl_value
        /\ RowsAppended(doubts_sheet, last.pre_doubts) = 1
        /\ doubts_sheet[Len(doubts_sheet)][3] = SessionBefore["phone"]
        /\ doubts_sheet[Len(doubts_sheet)][4] = Str(Sender)

C5Witness ==
    /\ UpdateHandledBy("handle_doubt")
    /\ RowsAppended(doubts_sheet, last.pre_doubts) = 1
    /\ last.gate = "Authenticated"

Sent(m) == m \in {last.msgs[i] : i \in 1..Len(last.msgs)}

\* C6 as the specification words it: a /cancel received in any conversation
\* state, LOGGED_IN included, clears the session and ends the conversation,
\* so that a /start after it is taken by the entry point, and appends no
\* Doubt row.
C6CancelEndsConversation ==
    (last.kind = "update" /\ last.event = Command(<<"cancel">>)) =>
        /\ user_data[Sender] = EmptyDict
        /\ conv[Sender] = END
        /\ Route(conv[Sender], Command(<<"start">>)) = "start"
        /\ RowsAppended(doubts_sheet, last.pre_doubts) = 0

\* the restart messages sent, or tried, to user u by the latest step
SendsTo(u) == {i \in 1..Len(last.sends) : last.sends[i].chat_id = u}

\* the blacklist get_blacklist returned to the latest step does not hold the
\* phone of the sender's session
NotBlacklisted ==
    /\ last.bl_returned
    /\ SessionBefore["phone"] \notin last.bl_value

\* C7: at process start every persisted session with a phone is sent the
\* restart notice exactly once and a session without a phone is sent none,
\* whichever of the sends fail; and a /start that arrives at the entry
\* point from a session with a phone that the blacklist returned by
\* get_blacklist does not hold goes to LOGGED_IN with the welcome-back
\* message only, no menu, and the session as it was.
C7RestartResumption ==
    /\ last.kind = "restart" =>
        \A u \in Users :
            Cardinality(SendsTo(u)) =
                IF Truthy(user_data[u], "phone") THEN 1 ELSE 0
    /\ (/\ UpdateHandledBy("start")
        /\ StateBefore = END
        /\ Truthy(SessionBefore, "phone")
        /\ NotBlacklisted) =>
            /\ conv[Sender] = LOGGED_IN
            /\ last.msgs = <<"welcome_back">>
            /\ user_data[Sender] = SessionBefore

\* a restart in which the send to one user failed and a later one went out
C7Witness ==
    /\ last.kind = "restart"
    /\ \E i, j \in 1..Len(last.sends) :
        /\ i < j
        /\ ~last.sends[i].delivered
        /\ last.sends[j].delivered

\* C8 as the specification words it: a restart leaves every user's session
\* and conversation state as they were, so that the next update is routed
\* to the handler of the state the user was in.
C8RestartKeepsState ==
    last.kind = "restart" =>
        /\ user_data = last.pre_data
        /\ conv = last.pre_conv

\* C8, amended: a restart leaves the fields of every user's session as they
\* were, but not the conversation state: no user has a conversation after
\* it, whatever state they were in, and the only update that is routed
\* then is /start, to the entry point.
C8RestartEndsConversations ==
    last.kind = "restart" =>
        /\ user_data = last.pre_data
        /\ \A u \in Users :
            /\ conv[u] = END
            /\ \A ev \in Events :
                Route(conv[u], ev) =
                    IF ev = Command(<<"start">>) THEN "start" ELSE NoHandler

\* a restart that found one user logged in and another in the middle of a
\* signup
C8Witness ==
    /\ last.kind = "restart"
    /\ \E u, v \in Users :
        /\ last.pre_conv[u] = LOGGED_IN
        /\ last.pre_conv[v] \in {SIGNUP_PHONE, SIGNUP_CLASS}
        /\ last.pre_data[v] # EmptyDict

\* handle_doubt has just handled an update in LOGGED_IN for a session whose
\* phone is set, is not in the blacklist returned and has an Account row,
\* and no call to a collaborator failed.
DoubtSubmitted ==
    /\ UpdateHandledBy("handle_doubt")
    /\ StateBefore = LOGGED_IN
    /\ Truthy(SessionBefore, "phone")
    /\ NotBlacklisted
    /\ Find(users_sheet, SessionBefore["phone"]) # 0
    /\ last.raised \notin
        {"GSpreadException", "TelegramError", "ApiRequestError"}

NewDoubt == doubts_sheet[Len(doubts_sheet)]

\* C9: a text or photo update submitted so appends exactly one Doubt row,
\* with status "Pending", the text (the caption of a photo, "-" without
\* one) and the link of the uploaded photo ("-" for a text), for the
\* session's phone and the caller; it is acknowledged, and the conversation
\* stays in LOGGED_IN with the session unchanged.
C9DoubtRecorded ==
    DoubtSubmitted =>
        /\ RowsAppended(doubts_sheet, last.pre_doubts) = 1
        /\ NewDoubt[7] = <<"Pending">>
        /\ NewDoubt[3] = SessionBefore["phone"]
        /\ NewDoubt[4] = Str(Sender)
        /\ IF last.event.kind = "photo"
           THEN /\ NewDoubt[5] =
                    IF last.event.payload = None THEN <<"-">>
                    ELSE last.event.payload
                /\ NewDoubt[6] # <<"-">>
                /\ last.msgs = <<"image_doubt_recorded">>
           ELSE /\ NewDoubt[5] = MessageText(last.event)
                /\ NewDoubt[6] = <<"-">>
                /\ last.msgs = <<"text_doubt_recorded">>
        /\ conv[Sender] = LOGGED_IN
        /\ user_data[Sender] = SessionBefore

C9Witness ==
    /\ DoubtSubmitted
    /\ last.event = Photo(None)
    /\ RowsAppended(doubts_sheet, last.pre_doubts) = 1

\* C10 as the specification words it: a /start from a session with a phone,
\* in whatever state it arrives, LOGGED_IN included, leaves the conversation
\* in LOGGED_IN with no menu shown and the session as it was, unless the
\* phone is in the blacklist, and then the session is cleared, the menu is
\* shown and the conversation is in AUTH_DECISION.
C10StartReenters ==
    (/\ last.kind = "update"
     /\ last.event = Command(<<"start">>)
     /\ Truthy(SessionBefore, "phone")
     /\ last.bl_returned) =>
        IF SessionBefore["phone"] \in last.bl_value
        THEN /\ user_data[Sender] = EmptyDict
             /\ Sent("menu")
             /\ conv[Sender] = AUTH_DECISION
        ELSE /\ conv[Sender] = LOGGED_IN
             /\ ~Sent("menu")
             /\ user_data[Sender] = SessionBefore

\* A call to the Users sheet has just failed with an error other than "not
\* found": users_sheet.find in login_phone (answered with the database
\* message) or in signup_phone (the error leaves the handler), or
\* users_sheet.append_row in signup_pin (answered with the saving message).
AccountStoreFailed ==
    /\ last.kind = "update"
    /\ \/ last.handler = "login_phone" /\ Sent("database_problem")
       \/ last.handler = "signup_phone" /\ last.raised = "GSpreadException"
       \/ last.handler = "signup_pin" /\ Sent("signup_problem")

\* C11 as the specification words it: when a call to the Account store
\* fails with a store error in login_phone, signup_phone or signup_pin, the
\* user gets a message, the conversation stays in the state it was in and
\* the session fields are unchanged.
C11StoreErrorKeepsState ==
    AccountStoreFailed =>
        /\ last.msgs # <<>>
        /\ conv[Sender] = StateBefore
        /\ user_data[Sender] = SessionBefore

\* C12 as the specification words it: every update that is routed to a
\* handler, in whatever conversation state, is answered with at least one
\* message sent or edited; in particular a text or photo handled in
\* LOGGED_IN is answered also when the session holds no phone.
C12EveryUpdateAnswered ==
    last.kind = "update" => last.msgs # <<>>

\* a text or photo has reached handle_doubt for a session whose phone an
\* earlier blacklist detection cleared, and nothing was sent
C12SilentDrop ==
    /\ UpdateHandledBy("handle_doubt")
    /\ StateBefore = LOGGED_IN
    /\ last.event.kind \in {"text", "photo"}
    /\ last.gate = "Anonymous"
    /\ last.raised = "none"
    /\ last.msgs = <<>>

\* C13 as the specification words it: no temporary image file created by
\* handle_doubt exists once the handler has finished, whether download and
\* upload succeeded or failed; between handler invocations there is none.
C13NoTempFileLeft ==
    temp_files = 0

\* a photo doubt whose download or upload failed has left its file behind
C13TempFileLeaked ==
    /\ UpdateHandledBy("handle_doubt")
    /\ last.event.kind = "photo"
    /\ last.raised \in {"TelegramError", "ApiRequestError"}
    /\ temp_files = last.pre_temps + 1

\* the session fields that belong to the signup and login flows
TransientKeys ==
    {"signup_name", "signup_phone", "signup_class", "selected_exams",
     "login_data"}

\* C14 as the specification words it: a session whose conversation is
\* outside the login and signup flows (no conversation, AUTH_DECISION or
\* LOGGED_IN) holds none of signup_name, signup_phone, signup_class,
\* selected_exams and login_data.
C14TransientFieldsCleared ==
    \A u \in Users :
        conv[u] \in {END, AUTH_DECISION, LOGGED_IN} =>
            TransientKeys \cap DOMAIN user_data[u] = {}

\* login_pin has just denied access to a user who is not the owner, and the
\* owner's Account row is still in that user's session
C14AccountRowKept ==
    /\ UpdateHandledBy("login_pin")
    /\ last.msgs = <<"access_denied">>
    /\ conv[Sender] = END
    /\ Has(user_data[Sender], "login_data")

\* signup_exams_callback has just handled the press of an exam button in
\* SIGNUP_EXAMS.
ExamButtonPressed ==
    /\ UpdateHandledBy("signup_exams_callback")
    /\ StateBefore = SIGNUP_EXAMS
    /\ Len(last.event.payload) = 2

PressedTag == last.event.payload[2]
SelectionBefore == SessionBefore["selected_exams"]
SelectionNow == user_data[Sender]["selected_exams"]

\* the selection after the same button is pressed once more
SelectionAfterSecondPress ==
    signup_exams_callback(Ctx(Sender), last.event).ud["selected_exams"]

\* C15: in SIGNUP_EXAMS the press of an exam button changes the membership
\* of that tag in selected_exams and of no other, pressing the same button
\* again gives back the selection from before the two presses, the keyboard
\* rendered after a press carries a checkmark on exactly the tags now
\* selected, and the conversation stays in SIGNUP_EXAMS; the Done button
\* leaves the selection alone and moves on to SIGNUP_PIN.
C15ExamToggle ==
    ExamButtonPressed =>
        IF PressedTag = "done"
        THEN /\ conv[Sender] = SIGNUP_PIN
             /\ SelectionNow = SelectionBefore
        ELSE /\ PressedTag \in SelectionNow <=> PressedTag \notin SelectionBefore
             /\ SelectionNow \ {PressedTag} = SelectionBefore \ {PressedTag}
             /\ SelectionAfterSecondPress = SelectionBefore
             /\ Len(last.keyboard) = Len(EXAM_OPTIONS) + 1
             /\ \A i \in 1..Len(EXAM_OPTIONS) :
                    /\ last.keyboard[i].exam = EXAM_OPTIONS[i]
                    /\ last.keyboard[i].checked <=>
                            EXAM_OPTIONS[i] \in SelectionNow
             /\ ~last.keyboard[Len(EXAM_OPTIONS) + 1].checked
             /\ conv[Sender] = SIGNUP_EXAMS

\* a press that took a tag out of a selection of several
C15Witness ==
    /\ ExamButtonPressed
    /\ PressedTag \in SelectionBefore
    /\ Cardinality(SelectionBefore) >= 2
    /\ Cardinality(SelectionNow) = Cardinality(SelectionBefore) - 1

\* C16 as the specification words it: in SIGNUP_PIN a text that is not
\* exactly four decimal digits is answered with the re-prompt and changes
\* nothing (same state, same session, no Account row, no admin
\* notification), and every Account row ever appended carries a PIN of
\* exactly four decimal digits.
C16PinFormat ==
    /\ (/\ UpdateHandledBy("signup_pin")
        /\ StateBefore = SIGNUP_PIN
        /\ ~DecimalPin(strip(MessageText(last.event)))) =>
            /\ last.msgs = <<"invalid_pin">>
            /\ conv[Sender] = SIGNUP_PIN
            /\ user_data[Sender] = SessionBefore
            /\ RowsAppended(users_sheet, last.pre_users) = 0
            /\ last.admin = "none"
    /\ \A i \in 1..Len(users_sheet) : DecimalPin(users_sheet[i][6])

\* an Account row has just been appended whose PIN is four superscript twos
C16NonDecimalPinStored ==
    /\ UpdateHandledBy("signup_pin")
    /\ RowsAppended(users_sheet, last.pre_users) = 1
    /\ users_sheet[Len(users_sheet)][6] = <<"sup2", "sup2", "sup2", "sup2">>
    /\ last.admin # "none"

\* C18: in every reachable state a session holds a phone only while its
\* conversation is in LOGGED_IN or there is no conversation (END, also
\* after a restart); never in AUTH_DECISION or in a login or signup state.
C18PhoneOnlyLoggedInOrEnd ==
    \A u \in Users :
        Has(user_data[u], "phone") => conv[u] \in {LOGGED_IN, END}

\* a session with a phone has just been sent from the entry point to the
\* menu, the gate having cleared it
C18Witness ==
    /\ UpdateHandledBy("start")
    /\ Has(SessionBefore, "phone")
    /\ conv[Sender] = AUTH_DECISION
    /\ ~Has(user_data[Sender], "phone")

\* handle_doubt has just told the user that the doubt has been recorded
DoubtAcknowledged ==
    /\ UpdateHandledBy("handle_doubt")
    /\ Sent("text_doubt_recorded") \/ Sent("image_doubt_recorded")

\* C19 as the specification words it: the acknowledgement that a doubt has
\* been recorded is sent for an update only if the Doubt row of that update
\* has been appended; it is never sent for an update whose append fails.
C19AcknowledgedOnlyIfAppended ==
    DoubtAcknowledged => RowsAppended(doubts_sheet, last.pre_doubts) = 1

\* a text doubt was acknowledged, the append then failed and no row exists
C19AcknowledgedWithoutRow ==
    /\ DoubtAcknowledged
    /\ last.event.kind = "text"
    /\ last.raised = "GSpreadException"
    /\ RowsAppended(doubts_sheet, last.pre_doubts) = 0

\* The handler that has just run asked get_blacklist for the blacklist, the
\* cache was absent or older than the TTL, and reading the sheet failed.
RefreshFailed ==
    /\ last.kind = "update"
    /\ last.refresh_failed

\* C20: when the blacklist cache is absent or older than 300 seconds and
\* the fetch that is to refresh it fails, the handler (start, login_phone or
\* handle_doubt) is aborted by the error and the gate lets nobody through:
\* the step appends no Doubt row, leaves every conversation state and
\* session as it was, and leaves the cache as it was, still absent or
\* still older than the TTL, so that the next call fetches again.
C20FailedRefreshAborts ==
    [][RefreshFailed' =>
        /\ last'.handler \in {"start", "login_phone", "handle_doubt"}
        /\ last'.raised # "none"
        /\ last'.gate # "Authenticated"
        /\ ~last'.bl_returned
        /\ doubts_sheet' = doubts_sheet
        /\ conv' = conv
        /\ user_data' = user_data
        /\ bot_data' = bot_data
        /\ NeedsRefresh(bot_data', elapsed')]_vars

\* handle_doubt met a failed fetch with a cached set that had grown old
C20Witness ==
    /\ RefreshFailed
    /\ last.handler = "handle_doubt"
    /\ Has(bot_data, "blacklist")
    /\ last.gate_phone # None

\* The updates of user u that wait in the update queue.
Waiting(u) ==
    {dispatcher.queue[i] : i \in {j \in 1..Len(dispatcher.queue) :
                                      dispatcher.queue[j].user = u}}

\* The handler invocations in progress for user u.
InProgress(u) == {r \in dispatcher.running : r.user = u}

\* C17: for each user, at most one handler invocation is in progress at a
\* time; the updates of the user are handled in the order of their arrival
\* (an invocation in progress is for an update that arrived after every
\* update of the user handled so far and before every update of the user
\* still waiting, and the waiting ones come later still); and the session a
\* handler in progress has read is the session as the previous handler left
\* it, so that no write to the session is lost.
C17OneAtATimeInArrivalOrder ==
    \A u \in Users :
        /\ Cardinality(InProgress(u)) <= 1
        /\ \A r \in InProgress(u) :
            /\ r.seq > dispatcher.handled[u]
            /\ \A w \in Waiting(u) : r.seq < w.seq
            /\ r.seen = user_data[u]
        /\ \A w \in Waiting(u) : w.seq > dispatcher.handled[u]
        /\ \A i, j \in 1..Len(dispatcher.queue) :
            i < j => dispatcher.queue[i].seq < dispatcher.queue[j].seq

\* A handler of a user has completed and changed the session, the next
\* update of the same user is being handled, and a third one, of the same
\* user again, waits in the queue.
C17Witness ==
    \E u \in Users :
        /\ dispatcher.handled[u] > 0
        /\ last.kind = "update" /\ last.user = u
        /\ last.pre_data[u] # user_data[u]
        /\ InProgress(u) # {}
        /\ Waiting(u) # {}
====
